---- MODULE Spec2Model ----
(***************************************************************************)
(* Sale transaction and stock deduction of the stock-manager application:  *)
(* the SellItem page (cart, handleSubmit), the InventoryProvider context   *)
(* (items cache, deductStock, refresh) and the database layer              *)
(* (inventoryDB, salesDB, receiptsDB).                                     *)
(*                                                                         *)
(* Every device runs one SellItem page against the shared hosted store.    *)
(* A step of the model is the code that runs between two awaits on the     *)
(* store: one store request together with the synchronous continuation     *)
(* that follows it.  Steps of different devices interleave freely.         *)
(***************************************************************************)
EXTENDS Integers, Sequences, FiniteSets, TLC

(* ------------------------------ bounds --------------------------------- *)

\* largest initial stock of an item
MaxQty == 2

\* largest value of the quantity input of the SellItem page
MaxReq == 2

\* number of handleSubmit calls that pass validation, over all devices
MaxAttempts == 2

\* number of direct calls of the store interface in StoreSpec
MaxStoreOps == 4

\* edits of an item or of the settings made from outside the Sell page
MaxEdits == 2

\* clock ticks the login session is followed for
MaxNow == 4

\* LOCKOUT_DURATION (5 * 60 * 1000 ms) in clock ticks
LockoutTicks == 2

\* const MAX_FAILED_ATTEMPTS = 5
MAX_FAILED_ATTEMPTS == 5

(* ------------------------------ universe ------------------------------- *)

Devices == {"d1", "d2"}

ItemIds == {"i1", "i2"}

\* stock the seeded inventory items start with
SeedQty(i) == IF i = "i1" THEN MaxQty ELSE 1

NoQty == [i \in ItemIds |-> 0]

NoneMade == [sales |-> 0, receipts |-> 0]

NoPrior == [applied |-> NoQty, sales |-> 0, receipts |-> 0]

\* unit price of the seeded inventory items
SeedPrice(i) == IF i = "i1" THEN 100 ELSE 30

DefaultBusinessName == "Keke Spare Parts"

\* DEFAULT of receipts.business_address and of app_settings.business_address
DefaultBusinessAddress == "56 Iwofe Road, Rumuopirikom, PHC"

\* a property the caller left out of the object it passes
Undefined == "undefined"

VARIABLES
    inventory,     \* table public.inventory: id -> [quantity, unitPrice]
    sales,         \* table public.sales, in insertion order
    receipts,      \* table public.receipts, in insertion order
    settings,      \* AuthContext settings: [businessName, businessAddress]
    items,         \* per device: InventoryProvider's cached items
    cart,          \* per device: SellItem cart state
    sellerName,    \* per device: SellItem sellerName state
    buyerName,     \* per device: SellItem buyerName state
    isLoading,     \* per device: SellItem isLoading state
    pc,            \* per device: position inside handleSubmit
    idx,           \* per device: index of the cart line of the for loop
    item,          \* per device: deductStock's local `item` (row read)
    result,        \* per device: value deductStock returned (TRUE = row)
    sale,          \* per device: id of the Sale returned by salesDB.add
    toast,         \* per device: the toast handleSubmit showed last, until
                   \* a toast of the Cart Builder replaces it
    attempts,      \* handleSubmit calls that passed validation so far
    \* history variables, written but never read by the program
    initQty,       \* the inventory quantities of the initial state
    deducted,      \* per item: units of all decrements that returned a row
    preQty,        \* per device: inventory quantities when the attempt began
    alone,         \* per device: no other device ran an attempt since then
    ended,         \* per device: the step at which the last attempt ended
    applied,       \* per device: per item, units decremented by the page
    made,          \* per device: [sales, receipts] created by the page
    prior,         \* per device: applied and made of the attempts that ended
                   \* in a receipt failure and are now retried, cart unchanged
    storeOps,      \* store calls made from outside the Sell page (StoreSpec,
                   \* EditSpec, SettingsSpec)
    tried,         \* per device: deductStock calls the attempt has made
    readPrice,     \* per device: per item, unit_price of the row deductStock read
    stamped,       \* per receipt: the settings held when it was inserted
    auth           \* AuthProvider state, localStorage and the clock (AuthSpec)

vars == <<inventory, sales, receipts, settings, items, cart, sellerName,
          buyerName, isLoading, pc, idx, item, result, sale, toast, attempts,
          initQty, deducted, preQty, alone, ended, applied, made, prior,
          storeOps, tried, readPrice, stamped, auth>>

pageVars == <<cart, sellerName, buyerName, isLoading, pc, idx, item, result,
              sale, toast, attempts>>

histVars == <<initQty, deducted, preQty, alone, ended, applied, made, prior>>

lineVars == <<tried, readPrice>>

(* ------------------------------ helpers -------------------------------- *)

RECURSIVE SumSeq(_)
SumSeq(s) == IF s = <<>> THEN 0 ELSE Head(s) + SumSeq(Tail(s))

\* String.prototype.trim on the names the model uses
Trim(str) ==
    IF str = " " THEN ""
    ELSE IF str = " Ada " THEN "Ada"
    ELSE str

\* cart.findIndex(c => c.itemId === id); 0 stands for -1
FindIndex(c, id) ==
    IF \E k \in 1..Len(c) : c[k].itemId = id
    THEN CHOOSE k \in 1..Len(c) :
            /\ c[k].itemId = id
            /\ \A j \in 1..(k-1) : c[j].itemId # id
    ELSE 0

\* const totalAmount = cart.reduce((sum, item) => sum + item.total, 0)
totalAmount(c) == SumSeq([k \in 1..Len(c) |-> c[k].total])

\* saleItems = cart.map(({itemId, itemName, quantity, unitPrice, total}) => ..)
saleItems(c) ==
    [k \in 1..Len(c) |->
        [itemId |-> c[k].itemId, quantity |-> c[k].quantity,
         unitPrice |-> c[k].unitPrice, total |-> c[k].total]]

\* units of item i requested by cart c
CartQty(c, i) ==
    SumSeq([k \in 1..Len(c) |-> IF c[k].itemId = i THEN c[k].quantity ELSE 0])

\* inventoryDB.getAll mapped to the quantities and prices the page uses
getAll == inventory

Quantities == [i \in ItemIds |-> inventory[i].quantity]

(* ------------------------------- Init ---------------------------------- *)

\* a row of table inventory; present is FALSE once the row has been deleted
Row(quantity, unitPrice) ==
    [quantity |-> quantity, unitPrice |-> unitPrice, present |-> TRUE]

\* AuthProvider after its init effect on a device that never logged in;
\* lockoutUntil 0 is null, storedLockout / storedAttempts 0 is no entry in
\* localStorage, isLocked is the value computed by the last render, result
\* is what the last login call returned, sinceLock is a history field: the
\* failed verifications since the last success or the last lockout
AuthInit ==
    [isAuthenticated |-> FALSE, failedAttempts |-> 0, lockoutUntil |-> 0,
     isLocked |-> FALSE, storedLockout |-> 0, storedAttempts |-> 0,
     result |-> "none", sinceLock |-> 0, now |-> 0]

\* the state after the pages have mounted: the store holds stock q, every
\* InventoryProvider has done its first refresh, device d holds cart c[d]
InitWith(q, c) ==
    /\ inventory = [i \in ItemIds |-> Row(q[i], SeedPrice(i))]
    /\ initQty = q
    /\ items = [d \in Devices |-> [i \in ItemIds |-> Row(q[i], SeedPrice(i))]]
    /\ preQty = [d \in Devices |-> NoQty]
    /\ sales = <<>>
    /\ receipts = <<>>
    /\ settings = [businessName |-> "Nigro Automobiles",
                   businessAddress |-> DefaultBusinessAddress]
    /\ cart = c
    /\ sellerName = [d \in Devices |-> "Ada"]
    /\ buyerName = [d \in Devices |-> "Bola"]
    /\ isLoading = [d \in Devices |-> FALSE]
    /\ pc = [d \in Devices |-> "idle"]
    /\ idx = [d \in Devices |-> 0]
    /\ item = [d \in Devices |-> 0]
    /\ result = [d \in Devices |-> FALSE]
    /\ sale = [d \in Devices |-> 0]
    /\ toast = [d \in Devices |-> ""]
    /\ attempts = 0
    /\ deducted = [i \in ItemIds |-> 0]
    /\ alone = [d \in Devices |-> FALSE]
    /\ ended = [d \in Devices |-> "none"]
    /\ applied = [d \in Devices |-> NoQty]
    /\ made = [d \in Devices |-> NoneMade]
    /\ prior = [d \in Devices |-> NoPrior]
    /\ storeOps = 0
    /\ tried = [d \in Devices |-> 0]
    /\ readPrice = [d \in Devices |-> NoQty]
    /\ stamped = <<>>
    /\ auth = AuthInit

Init == InitWith([i \in ItemIds |-> SeedQty(i)], [d \in Devices |-> <<>>])

(* --------------------------- Cart Builder ------------------------------ *)

\* the cart line addToCart appends for the selected item
NewLine(selectedItem, id, quantity) ==
    [itemId |-> id, quantity |-> quantity,
     unitPrice |-> selectedItem.unitPrice,
     total |-> quantity * selectedItem.unitPrice,
     availableQty |-> selectedItem.quantity]

addToCart_noMerge(c, selectedItem, id, quantity) ==
    IF quantity > selectedItem.quantity
    THEN c
    ELSE Append(c, NewLine(selectedItem, id, quantity))

\* the cart addToCart leaves, for the item selected from the cached items
addToCart(c, selectedItem, id, quantity) ==
    LET existingIndex == FindIndex(c, id) IN
    IF existingIndex > 0
    THEN LET existing == c[existingIndex]
             newQty == existing.quantity + quantity
         IN IF newQty > existing.availableQty
            THEN c
            ELSE [c EXCEPT ![existingIndex] =
                    [existing EXCEPT !.quantity = newQty,
                                     !.total = newQty * existing.unitPrice]]
    ELSE IF quantity > selectedItem.quantity
         THEN c
         ELSE Append(c, NewLine(selectedItem, id, quantity))

\* the history of the attempt of device d is dropped: its cart has changed
NewAttempt(d) ==
    /\ ended' = [ended EXCEPT ![d] = "none"]
    /\ preQty' = [preQty EXCEPT ![d] = NoQty]
    /\ alone' = [alone EXCEPT ![d] = FALSE]
    /\ applied' = [applied EXCEPT ![d] = NoQty]
    /\ made' = [made EXCEPT ![d] = NoneMade]
    /\ prior' = [prior EXCEPT ![d] = NoPrior]
    /\ sale' = [sale EXCEPT ![d] = 0]
    /\ toast' = [toast EXCEPT ![d] = ""]
    /\ tried' = [tried EXCEPT ![d] = 0]
    /\ readPrice' = [readPrice EXCEPT ![d] = NoQty]

\* user picks an item of the list and a quantity and presses "Add to Cart";
\* a refused addToCart only shows its own toast and leaves the state as it is
AddToCart(d, id, quantity) ==
    /\ pc[d] = "idle"
    /\ attempts < MaxAttempts
    /\ quantity > 0
    /\ items[d][id].present
    /\ cart' = [cart EXCEPT ![d] = addToCart(cart[d], items[d][id], id, quantity)]
    /\ cart'[d] # cart[d]
    /\ NewAttempt(d)
    /\ UNCHANGED <<inventory, sales, receipts, settings, items, sellerName,
                   buyerName, isLoading, pc, idx, item, result, attempts,
                   initQty, deducted, storeOps>>
    /\ UNCHANGED stamped
    /\ UNCHANGED auth

\* the cart removeFromCart leaves: cart.filter((_, i) => i !== index)
removeFromCart(c, index) ==
    [k \in 1..(Len(c) - 1) |-> IF k < index THEN c[k] ELSE c[k + 1]]

updateCartQuantity_noBound(c, index, delta) ==
    LET newQty == c[index].quantity + delta IN
    IF newQty <= 0 THEN removeFromCart(c, index)
    ELSE [c EXCEPT ![index] =
            [c[index] EXCEPT !.quantity = newQty,
                             !.total = newQty * c[index].unitPrice]]

updateCartQuantity_staleTotal(c, index, delta) ==
    LET newQty == c[index].quantity + delta IN
    IF newQty <= 0 THEN removeFromCart(c, index)
    ELSE IF newQty > c[index].availableQty THEN c
    ELSE [c EXCEPT ![index] = [c[index] EXCEPT !.quantity = newQty]]

\* the cart updateCartQuantity leaves
updateCartQuantity(c, index, delta) ==
    LET newQty == c[index].quantity + delta IN
    IF newQty <= 0 THEN removeFromCart(c, index)
    ELSE IF newQty > c[index].availableQty THEN c
    ELSE [c EXCEPT ![index] =
            [c[index] EXCEPT !.quantity = newQty,
                             !.total = newQty * c[index].unitPrice]]

\* the minus and plus buttons of a cart line
UpdateCartQuantity(d, index, delta) ==
    /\ pc[d] = "idle"
    /\ attempts < MaxAttempts
    /\ index \in 1..Len(cart[d])
    /\ cart' = [cart EXCEPT ![d] = updateCartQuantity(cart[d], index, delta)]
    /\ cart'[d] # cart[d]
    /\ NewAttempt(d)
    /\ UNCHANGED <<inventory, sales, receipts, settings, items, sellerName,
                   buyerName, isLoading, pc, idx, item, result, attempts,
                   initQty, deducted, storeOps, stamped>>
    /\ UNCHANGED auth

\* the trash button of a cart line
RemoveFromCart(d, index) ==
    /\ pc[d] = "idle"
    /\ attempts < MaxAttempts
    /\ index \in 1..Len(cart[d])
    /\ cart' = [cart EXCEPT ![d] = removeFromCart(cart[d], index)]
    /\ NewAttempt(d)
    /\ UNCHANGED <<inventory, sales, receipts, settings, items, sellerName,
                   buyerName, isLoading, pc, idx, item, result, attempts,
                   initQty, deducted, storeOps, stamped>>
    /\ UNCHANGED auth

\* the cart buttons of the SellItem page
CartStep(d) ==
    \/ \E id \in ItemIds, quantity \in 1..MaxReq : AddToCart(d, id, quantity)
    \/ \E index \in 1..Cardinality(ItemIds), delta \in {-1, 1} :
            UpdateCartQuantity(d, index, delta)
    \/ \E index \in 1..Cardinality(ItemIds) : RemoveFromCart(d, index)

(* ---------------------- Sale Transaction Engine ------------------------ *)

Idle(d) == pc[d] \in {"idle", "receipt"}

\* an attempt of device d ends without navigation: toast, setIsLoading(false)
EndAttempt(d, message, how) ==
    /\ toast' = [toast EXCEPT ![d] = message]
    /\ isLoading' = [isLoading EXCEPT ![d] = FALSE]
    /\ pc' = [pc EXCEPT ![d] = "idle"]
    /\ idx' = [idx EXCEPT ![d] = 0]
    /\ item' = [item EXCEPT ![d] = 0]
    /\ result' = [result EXCEPT ![d] = FALSE]
    /\ ended' = [ended EXCEPT ![d] = how]

Invalid_noTrim(c, seller, buyer) == c = <<>> \/ seller = "" \/ buyer = ""

\* the three checks of handleSubmit: cart.length === 0, !sellerName.trim(),
\* !buyerName.trim()
Invalid(c, seller, buyer) ==
    c = <<>> \/ Trim(seller) = "" \/ Trim(buyer) = ""

HandleSubmit_neverLoading(d) ==
    /\ pc[d] # "receipt"
    /\ ~isLoading[d]
    /\ IF Invalid(cart[d], sellerName[d], buyerName[d])
       THEN /\ toast' = [toast EXCEPT ![d] =
                            IF cart[d] = <<>> THEN "Add items to sell"
                            ELSE IF Trim(sellerName[d]) = ""
                                 THEN "Seller name is required"
                                 ELSE "Buyer name is required"]
            /\ toast'[d] # toast[d]
            /\ ended' = [ended EXCEPT ![d] = "validation"]
            /\ UNCHANGED <<isLoading, pc, idx, attempts, preQty, alone,
                           applied, made, prior, tried, readPrice>>
       ELSE /\ attempts < MaxAttempts
            /\ attempts' = attempts + 1
            /\ UNCHANGED isLoading
            /\ pc' = [pc EXCEPT ![d] = "getById"]
            /\ idx' = [idx EXCEPT ![d] = 1]
            /\ preQty' = [preQty EXCEPT ![d] = Quantities]
            /\ alone' = [e \in Devices |->
                            IF e = d THEN \A f \in Devices \ {d} : Idle(f)
                            ELSE FALSE]
            /\ ended' = [ended EXCEPT ![d] = "none"]
            /\ prior' = [prior EXCEPT ![d] =
                    IF ended[d] = "receiptFault"
                    THEN [applied |-> [i \in ItemIds |->
                                         prior[d].applied[i] + applied[d][i]],
                          sales |-> prior[d].sales + made[d].sales,
                          receipts |-> prior[d].receipts + made[d].receipts]
                    ELSE NoPrior]
            /\ applied' = [applied EXCEPT ![d] = NoQty]
            /\ made' = [made EXCEPT ![d] = NoneMade]
            /\ tried' = [tried EXCEPT ![d] = 0]
            /\ readPrice' = [readPrice EXCEPT ![d] = NoQty]
            /\ UNCHANGED toast
    /\ UNCHANGED <<inventory, sales, receipts, settings, items, cart,
                   sellerName, buyerName, item, result, sale, initQty,
                   deducted, storeOps, stamped>>
    /\ UNCHANGED auth

\* the Complete Sale button (enabled on a mounted page while isLoading is
\* false), then handleSubmit up to its first await: the three checks,
\* setIsLoading(true)
HandleSubmit(d) ==
    /\ pc[d] # "receipt"
    /\ ~isLoading[d]
    /\ IF Invalid(cart[d], sellerName[d], buyerName[d])
       THEN /\ toast' = [toast EXCEPT ![d] =
                            IF cart[d] = <<>> THEN "Add items to sell"
                            ELSE IF Trim(sellerName[d]) = ""
                                 THEN "Seller name is required"
                                 ELSE "Buyer name is required"]
            /\ toast'[d] # toast[d]
            /\ ended' = [ended EXCEPT ![d] = "validation"]
            /\ UNCHANGED <<isLoading, pc, idx, attempts, preQty, alone,
                           applied, made, prior, tried, readPrice>>
       ELSE /\ attempts < MaxAttempts
            /\ attempts' = attempts + 1
            /\ isLoading' = [isLoading EXCEPT ![d] = TRUE]
            /\ pc' = [pc EXCEPT ![d] = "getById"]
            /\ idx' = [idx EXCEPT ![d] = 1]
            /\ preQty' = [preQty EXCEPT ![d] = Quantities]
            /\ alone' = [e \in Devices |->
                            IF e = d THEN \A f \in Devices \ {d} : Idle(f)
                            ELSE FALSE]
            /\ ended' = [ended EXCEPT ![d] = "none"]
            /\ prior' = [prior EXCEPT ![d] =
                    IF ended[d] = "receiptFault"
                    THEN [applied |-> [i \in ItemIds |->
                                         prior[d].applied[i] + applied[d][i]],
                          sales |-> prior[d].sales + made[d].sales,
                          receipts |-> prior[d].receipts + made[d].receipts]
                    ELSE NoPrior]
            /\ applied' = [applied EXCEPT ![d] = NoQty]
            /\ made' = [made EXCEPT ![d] = NoneMade]
            /\ tried' = [tried EXCEPT ![d] = 0]
            /\ readPrice' = [readPrice EXCEPT ![d] = NoQty]
            /\ UNCHANGED toast
    /\ UNCHANGED <<inventory, sales, receipts, settings, items, cart,
                   sellerName, buyerName, item, result, sale, initQty,
                   deducted, storeOps, stamped>>
    /\ UNCHANGED auth

Insufficient_never(itemQuantity, quantity) == FALSE

Insufficient_offByOne(itemQuantity, quantity) == itemQuantity + 1 < quantity

\* deductStock's refusal: !item || item.quantity < quantity (rows are never
\* deleted here, so the row read is always present)
Insufficient(itemQuantity, quantity) == itemQuantity < quantity

NewQuantity_byOne(itemQuantity, quantity) == itemQuantity - 1

\* the quantity deductStock writes: item.quantity - quantity
NewQuantity(itemQuantity, quantity) == itemQuantity - quantity

\* inventoryDB.deductStock, first half: getById and the stock check
GetById(d) ==
    /\ pc[d] = "getById"
    /\ LET line == cart[d][idx[d]]
           row == inventory[line.itemId]
       IN /\ item' = [item EXCEPT ![d] = row.quantity]
          /\ IF ~row.present \/ Insufficient(row.quantity, line.quantity)
             THEN /\ result' = [result EXCEPT ![d] = FALSE]
                  /\ pc' = [pc EXCEPT ![d] = "refresh"]
             ELSE /\ pc' = [pc EXCEPT ![d] = "update"]
                  /\ UNCHANGED result
    /\ UNCHANGED <<inventory, sales, receipts, settings, items, cart,
                   sellerName, buyerName, isLoading, idx, sale, toast,
                   attempts, storeOps>>
    /\ UNCHANGED histVars
    /\ tried' = [tried EXCEPT ![d] = @ + 1]
    /\ readPrice' = [readPrice EXCEPT ![d][cart[d][idx[d]].itemId] =
                        inventory[cart[d][idx[d]].itemId].unitPrice]
    /\ UNCHANGED stamped
    /\ UNCHANGED auth

Update_wholeTable(d) ==
    /\ pc[d] = "update"
    /\ inventory[cart[d][idx[d]].itemId].present
    /\ LET line == cart[d][idx[d]]
       IN /\ inventory' = [i \in ItemIds |->
                             [inventory[i] EXCEPT !.quantity =
                                 IF i = line.itemId
                                 THEN NewQuantity(item[d], line.quantity)
                                 ELSE preQty[d][i]]]
          /\ deducted' = [deducted EXCEPT ![line.itemId] = @ + line.quantity]
          /\ applied' = [applied EXCEPT ![d][line.itemId] = @ + line.quantity]
    /\ result' = [result EXCEPT ![d] = TRUE]
    /\ pc' = [pc EXCEPT ![d] = "refresh"]
    /\ UNCHANGED <<sales, receipts, settings, items, cart, sellerName,
                   buyerName, isLoading, idx, item, sale, toast, attempts,
                   initQty, preQty, alone, ended, made, prior, storeOps>>
    /\ UNCHANGED <<tried, readPrice, stamped>>
    /\ UNCHANGED auth

\* inventoryDB.deductStock, second half: update quantity = item.quantity - n
Update(d) ==
    /\ pc[d] = "update"
    /\ inventory[cart[d][idx[d]].itemId].present
    /\ LET line == cart[d][idx[d]]
       IN /\ inventory' = [inventory EXCEPT
                             ![line.itemId].quantity =
                                NewQuantity(item[d], line.quantity)]
          /\ deducted' = [deducted EXCEPT ![line.itemId] = @ + line.quantity]
          /\ applied' = [applied EXCEPT ![d][line.itemId] = @ + line.quantity]
    /\ result' = [result EXCEPT ![d] = TRUE]
    /\ pc' = [pc EXCEPT ![d] = "refresh"]
    /\ UNCHANGED <<sales, receipts, settings, items, cart, sellerName,
                   buyerName, isLoading, idx, item, sale, toast, attempts,
                   initQty, preQty, alone, ended, made, prior, storeOps>>
    /\ UNCHANGED <<tried, readPrice, stamped>>
    /\ UNCHANGED auth

\* a store request of deductStock fails: the error reaches handleSubmit's catch
DeductStockThrows(d) ==
    /\ pc[d] \in {"getById", "update"}
    /\ EndAttempt(d, "Failed to complete sale", "deductFault")
    /\ UNCHANGED <<inventory, sales, receipts, settings, items, cart,
                   sellerName, buyerName, sale, attempts,
                   initQty, deducted, preQty, alone, applied, made, prior, storeOps>>
    /\ UNCHANGED <<tried, readPrice, stamped>>
    /\ UNCHANGED auth

\* `Failed to deduct stock for ${cartItem.itemName}`; items are named by id
DeductToast(id) ==
    IF id = "i1" THEN "Failed to deduct stock for i1"
    ELSE "Failed to deduct stock for i2"

Refresh_oneLine(d) ==
    /\ pc[d] = "refresh"
    /\ items' = [items EXCEPT ![d] = getAll]
    /\ IF ~result[d]
       THEN EndAttempt(d, DeductToast(cart[d][idx[d]].itemId), "refused")
       ELSE /\ IF idx[d] < Len(cart[d]) /\ idx[d] < 1
               THEN /\ idx' = [idx EXCEPT ![d] = @ + 1]
                    /\ pc' = [pc EXCEPT ![d] = "getById"]
               ELSE /\ idx' = [idx EXCEPT ![d] = 0]
                    /\ pc' = [pc EXCEPT ![d] = "salesAdd"]
            /\ item' = [item EXCEPT ![d] = 0]
            /\ result' = [result EXCEPT ![d] = FALSE]
            /\ UNCHANGED <<toast, isLoading, ended>>
    /\ UNCHANGED <<inventory, sales, receipts, settings, cart, sellerName,
                   buyerName, sale, attempts, initQty, deducted,
                   preQty, alone, applied, made, prior, storeOps>>
    /\ UNCHANGED <<tried, readPrice, stamped>>
    /\ UNCHANGED auth

Refresh_noHalt(d) ==
    /\ pc[d] = "refresh"
    /\ items' = [items EXCEPT ![d] = getAll]
    /\ IF ~result[d] /\ idx[d] >= Len(cart[d])
       THEN EndAttempt(d, DeductToast(cart[d][idx[d]].itemId), "refused")
       ELSE /\ IF idx[d] < Len(cart[d])
               THEN /\ idx' = [idx EXCEPT ![d] = @ + 1]
                    /\ pc' = [pc EXCEPT ![d] = "getById"]
               ELSE /\ idx' = [idx EXCEPT ![d] = 0]
                    /\ pc' = [pc EXCEPT ![d] = "salesAdd"]
            /\ item' = [item EXCEPT ![d] = 0]
            /\ result' = [result EXCEPT ![d] = FALSE]
            /\ UNCHANGED <<toast, isLoading, ended>>
    /\ UNCHANGED <<inventory, sales, receipts, settings, cart, sellerName,
                   buyerName, sale, attempts, initQty, deducted,
                   preQty, alone, applied, made, prior, storeOps>>
    /\ UNCHANGED <<tried, readPrice, stamped>>
    /\ UNCHANGED auth

\* InventoryProvider.deductStock's refresh, then the loop body of handleSubmit
Refresh(d) ==
    /\ pc[d] = "refresh"
    /\ items' = [items EXCEPT ![d] = getAll]
    /\ IF ~result[d]
       THEN EndAttempt(d, DeductToast(cart[d][idx[d]].itemId), "refused")
       ELSE /\ IF idx[d] < Len(cart[d])
               THEN /\ idx' = [idx EXCEPT ![d] = @ + 1]
                    /\ pc' = [pc EXCEPT ![d] = "getById"]
               ELSE /\ idx' = [idx EXCEPT ![d] = 0]
                    /\ pc' = [pc EXCEPT ![d] = "salesAdd"]
            /\ item' = [item EXCEPT ![d] = 0]
            /\ result' = [result EXCEPT ![d] = FALSE]
            /\ UNCHANGED <<toast, isLoading, ended>>
    /\ UNCHANGED <<inventory, sales, receipts, settings, cart, sellerName,
                   buyerName, sale, attempts, initQty, deducted,
                   preQty, alone, applied, made, prior, storeOps>>
    /\ UNCHANGED <<tried, readPrice, stamped>>
    /\ UNCHANGED auth

\* the row salesDB.add inserts: generateId is the position in the table
NewSale(id, s) ==
    [id |-> id, items |-> s.items, totalAmount |-> s.totalAmount,
     sellerName |-> s.sellerName, buyerName |-> s.buyerName]

\* salesDB.add called by handleSubmit
SalesAdd(d) ==
    /\ pc[d] = "salesAdd"
    /\ LET id == Len(sales) + 1
       IN /\ sales' = Append(sales,
                NewSale(id, [items |-> saleItems(cart[d]),
                             totalAmount |-> totalAmount(cart[d]),
                             sellerName |-> Trim(sellerName[d]),
                             buyerName |-> Trim(buyerName[d])]))
          /\ sale' = [sale EXCEPT ![d] = id]
    /\ made' = [made EXCEPT ![d].sales = @ + 1]
    /\ pc' = [pc EXCEPT ![d] = "receiptsAdd"]
    /\ UNCHANGED <<inventory, receipts, settings, items, cart, sellerName,
                   buyerName, isLoading, idx, item, result, toast, attempts,
                   initQty, deducted, preQty, alone, ended, applied, prior, storeOps>>
    /\ UNCHANGED <<tried, readPrice, stamped>>
    /\ UNCHANGED auth

SalesAddThrows_swallowed(d) ==
    /\ pc[d] = "salesAdd"
    /\ sale' = [sale EXCEPT ![d] = Len(sales) + 1]
    /\ pc' = [pc EXCEPT ![d] = "receiptsAdd"]
    /\ UNCHANGED <<inventory, sales, receipts, settings, items, cart,
                   sellerName, buyerName, isLoading, idx, item, result, toast,
                   attempts, storeOps>>
    /\ UNCHANGED histVars
    /\ UNCHANGED <<tried, readPrice, stamped>>
    /\ UNCHANGED auth

\* salesDB.add fails: catch block of handleSubmit, then finally
SalesAddThrows(d) ==
    /\ pc[d] = "salesAdd"
    /\ EndAttempt(d, "Failed to complete sale", "saleFault")
    /\ UNCHANGED <<inventory, sales, receipts, settings, items, cart,
                   sellerName, buyerName, sale, attempts,
                   initQty, deducted, preQty, alone, applied, made, prior, storeOps>>
    /\ UNCHANGED <<tried, readPrice, stamped>>
    /\ UNCHANGED auth

\* the row receiptsDB.add inserts; a column whose value is undefined is left
\* out of the insert and takes its DEFAULT
NewReceipt(id, r) ==
    [id |-> id, saleId |-> r.saleId, businessName |-> r.businessName,
     businessAddress |-> IF r.businessAddress = Undefined
                         THEN DefaultBusinessAddress
                         ELSE r.businessAddress,
     items |-> r.items, totalAmount |-> r.totalAmount,
     sellerName |-> r.sellerName, buyerName |-> r.buyerName]

\* receiptsDB.add: always inserts a new row
receiptsDBadd(rs, r) == Append(rs, NewReceipt(Len(rs) + 1, r))

ReceiptInput_untrimmed(d) ==
    [saleId |-> sale[d],
     businessName |-> IF settings.businessName # ""
                      THEN settings.businessName
                      ELSE DefaultBusinessName,
     businessAddress |-> Undefined,
     items |-> saleItems(cart[d]),
     totalAmount |-> totalAmount(cart[d]),
     sellerName |-> sellerName[d],
     buyerName |-> buyerName[d]]

\* the object handleSubmit passes to receiptsDB.add; it has no businessAddress
ReceiptInput(d) ==
    [saleId |-> sale[d],
     businessName |-> IF settings.businessName # ""
                      THEN settings.businessName
                      ELSE DefaultBusinessName,
     businessAddress |-> Undefined,
     items |-> saleItems(cart[d]),
     totalAmount |-> totalAmount(cart[d]),
     sellerName |-> Trim(sellerName[d]),
     buyerName |-> Trim(buyerName[d])]

\* receiptsDB.add called by handleSubmit
ReceiptsAdd(d) ==
    /\ pc[d] = "receiptsAdd"
    /\ receipts' = receiptsDBadd(receipts, ReceiptInput(d))
    /\ made' = [made EXCEPT ![d].receipts = @ + 1]
    /\ pc' = [pc EXCEPT ![d] = "finalRefresh"]
    /\ UNCHANGED <<inventory, sales, settings, items, cart, sellerName,
                   buyerName, isLoading, idx, item, result, sale, toast,
                   attempts, initQty, deducted, preQty, alone, ended, applied,
                   prior, storeOps>>
    /\ stamped' = Append(stamped, settings)
    /\ UNCHANGED lineVars
    /\ UNCHANGED auth

ReceiptsAddThrows_compensating(d) ==
    /\ pc[d] = "receiptsAdd"
    /\ EndAttempt(d, "Failed to complete sale", "receiptFault")
    /\ inventory' = [i \in ItemIds |->
                        [inventory[i] EXCEPT !.quantity = @ + applied[d][i]]]
    /\ UNCHANGED <<sales, receipts, settings, items, cart,
                   sellerName, buyerName, sale, attempts,
                   initQty, deducted, preQty, alone, applied, made, prior,
                   storeOps>>
    /\ UNCHANGED <<tried, readPrice, stamped>>
    /\ UNCHANGED auth

\* receiptsDB.add fails: catch block of handleSubmit, then finally
ReceiptsAddThrows(d) ==
    /\ pc[d] = "receiptsAdd"
    /\ EndAttempt(d, "Failed to complete sale", "receiptFault")
    /\ UNCHANGED <<inventory, sales, receipts, settings, items, cart,
                   sellerName, buyerName, sale, attempts,
                   initQty, deducted, preQty, alone, applied, made, prior, storeOps>>
    /\ UNCHANGED <<tried, readPrice, stamped>>
    /\ UNCHANGED auth

\* refresh after the receipt, "Sale Complete!" toast, navigate, finally
FinalRefresh(d) ==
    /\ pc[d] = "finalRefresh"
    /\ items' = [items EXCEPT ![d] = getAll]
    /\ toast' = [toast EXCEPT ![d] = "Sale Complete!"]
    /\ isLoading' = [isLoading EXCEPT ![d] = FALSE]
    /\ pc' = [pc EXCEPT ![d] = "receipt"]
    /\ ended' = [ended EXCEPT ![d] = "complete"]
    /\ UNCHANGED <<inventory, sales, receipts, settings, cart, sellerName,
                   buyerName, idx, item, result, sale, attempts, initQty,
                   deducted, preQty, alone, applied, made, prior, storeOps>>
    /\ UNCHANGED <<tried, readPrice, stamped>>
    /\ UNCHANGED auth

\* the user returns from the receipt to a newly mounted SellItem page
OpenSell(d) ==
    /\ pc[d] = "receipt"
    /\ attempts < MaxAttempts
    /\ pc' = [pc EXCEPT ![d] = "idle"]
    /\ cart' = [cart EXCEPT ![d] = <<>>]
    /\ NewAttempt(d)
    /\ UNCHANGED <<inventory, sales, receipts, settings, items, sellerName,
                   buyerName, isLoading, idx, item, result, attempts, initQty,
                   deducted, storeOps>>
    /\ UNCHANGED stamped
    /\ UNCHANGED auth

\* the steps of handleSubmit and of the calls it awaits
SaleStep(d) ==
    \/ HandleSubmit(d)
    \/ GetById(d)
    \/ Update(d)
    \/ DeductStockThrows(d)
    \/ Refresh(d)
    \/ SalesAdd(d)
    \/ SalesAddThrows(d)
    \/ ReceiptsAdd(d)
    \/ ReceiptsAddThrows(d)
    \/ FinalRefresh(d)

Next ==
    \E d \in Devices :
        \/ \E id \in ItemIds, quantity \in 1..MaxReq : AddToCart(d, id, quantity)
        \/ SaleStep(d)
        \/ OpenSell(d)

Spec == Init /\ [][Next]_vars

(* ------------- two devices selling 3 of an item with stock 5 ----------- *)

\* both devices have put 3 units of i1 into their cart while its stock was 5
ScenarioInit ==
    InitWith([i \in ItemIds |-> IF i = "i1" THEN 5 ELSE 1],
             [d \in Devices |->
                <<NewLine([quantity |-> 5, unitPrice |-> SeedPrice("i1")],
                          "i1", 3)>>])

ScenarioNext == \E d \in Devices : SaleStep(d)

ScenarioSpec == ScenarioInit /\ [][ScenarioNext]_vars

(* ------------------ the store interface called directly ---------------- *)

StoreNames == {"Ada", "Bola"}

StoreItems == <<[itemId |-> "i1", quantity |-> 1, unitPrice |-> SeedPrice("i1"),
                 total |-> SeedPrice("i1")]>>

\* salesDB.add(sale)
StoreSalesAdd(sellerN, buyerN) ==
    /\ storeOps < MaxStoreOps
    /\ storeOps' = storeOps + 1
    /\ sales' = Append(sales,
            NewSale(Len(sales) + 1,
                    [items |-> StoreItems, totalAmount |-> StoreItems[1].total,
                     sellerName |-> sellerN, buyerName |-> buyerN]))
    /\ UNCHANGED <<inventory, receipts, settings, items>>
    /\ UNCHANGED pageVars
    /\ UNCHANGED histVars
    /\ UNCHANGED <<tried, readPrice, stamped>>
    /\ UNCHANGED auth

\* receiptsDB.add(receipt) for a sale of the sales table (sale_id REFERENCES)
StoreReceiptsAdd(saleId) ==
    /\ storeOps < MaxStoreOps
    /\ saleId \in 1..Len(sales)
    /\ storeOps' = storeOps + 1
    /\ receipts' = receiptsDBadd(receipts,
            [saleId |-> saleId, businessName |-> settings.businessName,
             businessAddress |-> settings.businessAddress,
             items |-> sales[saleId].items,
             totalAmount |-> sales[saleId].totalAmount,
             sellerName |-> sales[saleId].sellerName,
             buyerName |-> sales[saleId].buyerName])
    /\ UNCHANGED <<inventory, sales, settings, items>>
    /\ UNCHANGED pageVars
    /\ UNCHANGED histVars
    /\ stamped' = Append(stamped, settings)
    /\ UNCHANGED lineVars
    /\ UNCHANGED auth

StoreNext ==
    \/ \E sellerN \in StoreNames, buyerN \in StoreNames :
            StoreSalesAdd(sellerN, buyerN)
    \/ \E saleId \in 1..MaxStoreOps : StoreReceiptsAdd(saleId)

StoreSpec == Init /\ [][StoreNext]_vars

(* --------------- one page: the form and every cart button -------------- *)

\* what the user types into the name inputs
Names == {"", " ", " Ada "}

\* onChange of the seller name input
SetSellerName(d, name) ==
    /\ pc[d] = "idle"
    /\ attempts < MaxAttempts
    /\ name # sellerName[d]
    /\ sellerName' = [sellerName EXCEPT ![d] = name]
    /\ NewAttempt(d)
    /\ UNCHANGED <<inventory, sales, receipts, settings, items, cart,
                   buyerName, isLoading, pc, idx, item, result, attempts,
                   initQty, deducted, storeOps, stamped>>
    /\ UNCHANGED auth

\* onChange of the buyer name input
SetBuyerName(d, name) ==
    /\ pc[d] = "idle"
    /\ attempts < MaxAttempts
    /\ name # buyerName[d]
    /\ buyerName' = [buyerName EXCEPT ![d] = name]
    /\ NewAttempt(d)
    /\ UNCHANGED <<inventory, sales, receipts, settings, items, cart,
                   sellerName, isLoading, pc, idx, item, result, attempts,
                   initQty, deducted, storeOps, stamped>>
    /\ UNCHANGED auth

\* the device whose page the one-page specifications follow
Page == "d1"

FormNext ==
    \/ CartStep(Page)
    \/ \E name \in Names : SetSellerName(Page, name)
    \/ \E name \in Names : SetBuyerName(Page, name)
    \/ SaleStep(Page)
    \/ OpenSell(Page)

FormSpec == Init /\ [][FormNext]_vars

(* ------------- one page, and items edited from another page ------------ *)

\* a unit price the Edit Item form is saved with, besides the current one
EditPrices == {45}

UpdateItem_repricing(id, unitPrice, quantity) ==
    /\ storeOps < MaxEdits
    /\ unitPrice > 0
    /\ quantity >= 0
    /\ inventory[id].present
    /\ <<unitPrice, quantity>> #
           <<inventory[id].unitPrice, inventory[id].quantity>>
    /\ inventory' = [inventory EXCEPT ![id].unitPrice = unitPrice,
                                      ![id].quantity = quantity]
    /\ sales' = [k \in 1..Len(sales) |->
                   [sales[k] EXCEPT !.items =
                       [j \in 1..Len(sales[k].items) |->
                           IF sales[k].items[j].itemId = id
                           THEN [sales[k].items[j] EXCEPT !.unitPrice = unitPrice]
                           ELSE sales[k].items[j]]]]
    /\ storeOps' = storeOps + 1
    /\ UNCHANGED <<receipts, settings, items, stamped>>
    /\ UNCHANGED pageVars
    /\ UNCHANGED histVars
    /\ UNCHANGED lineVars
    /\ UNCHANGED auth

\* EditItem handleSubmit: unitPrice > 0 and quantity >= 0 pass its checks,
\* then updateItem -> inventoryDB.update writes both columns of the row
UpdateItem(id, unitPrice, quantity) ==
    /\ storeOps < MaxEdits
    /\ unitPrice > 0
    /\ quantity >= 0
    /\ inventory[id].present
    /\ <<unitPrice, quantity>> #
           <<inventory[id].unitPrice, inventory[id].quantity>>
    /\ inventory' = [inventory EXCEPT ![id].unitPrice = unitPrice,
                                      ![id].quantity = quantity]
    /\ storeOps' = storeOps + 1
    /\ UNCHANGED <<sales, receipts, settings, items, stamped>>
    /\ UNCHANGED pageVars
    /\ UNCHANGED histVars
    /\ UNCHANGED lineVars
    /\ UNCHANGED auth

\* Inventory page handleDelete: deleteItem -> inventoryDB.delete removes the row
DeleteItem(id) ==
    /\ storeOps < MaxEdits
    /\ inventory[id].present
    /\ inventory' = [inventory EXCEPT ![id].present = FALSE]
    /\ storeOps' = storeOps + 1
    /\ UNCHANGED <<sales, receipts, settings, items, stamped>>
    /\ UNCHANGED pageVars
    /\ UNCHANGED histVars
    /\ UNCHANGED lineVars
    /\ UNCHANGED auth

EditNext ==
    \/ CartStep(Page)
    \/ SaleStep(Page)
    \/ OpenSell(Page)
    \/ \E id \in ItemIds, quantity \in 0..MaxQty :
           \E unitPrice \in EditPrices \cup {inventory[id].unitPrice} :
               UpdateItem(id, unitPrice, quantity)

EditSpec == Init /\ [][EditNext]_vars

(* ------------------ one page, and the settings edited ------------------ *)

\* business names and addresses the settings are saved with
BusinessNames == {"Nigro Automobiles", "Keke Parts"}

BusinessAddresses == {DefaultBusinessAddress, "12 Aba Road, PHC"}

\* Settings handleSaveBusinessName: settingsDB.updateBusinessName, then
\* refreshSettings
UpdateBusinessName(name) ==
    /\ storeOps < MaxEdits
    /\ name # settings.businessName
    /\ settings' = [settings EXCEPT !.businessName = name]
    /\ storeOps' = storeOps + 1
    /\ UNCHANGED <<inventory, sales, receipts, items, stamped>>
    /\ UNCHANGED pageVars
    /\ UNCHANGED histVars
    /\ UNCHANGED lineVars
    /\ UNCHANGED auth

\* settingsDB.updateBusinessAddress, read back by refreshSettings
UpdateBusinessAddress(address) ==
    /\ storeOps < MaxEdits
    /\ address # settings.businessAddress
    /\ settings' = [settings EXCEPT !.businessAddress = address]
    /\ storeOps' = storeOps + 1
    /\ UNCHANGED <<inventory, sales, receipts, items, stamped>>
    /\ UNCHANGED pageVars
    /\ UNCHANGED histVars
    /\ UNCHANGED lineVars
    /\ UNCHANGED auth

\* settingsDB.updateBusinessInfo, read back by refreshSettings
UpdateBusinessInfo(name, address) ==
    /\ storeOps < MaxEdits
    /\ name # settings.businessName
    /\ address # settings.businessAddress
    /\ settings' = [settings EXCEPT !.businessName = name,
                                    !.businessAddress = address]
    /\ storeOps' = storeOps + 1
    /\ UNCHANGED <<inventory, sales, receipts, items, stamped>>
    /\ UNCHANGED pageVars
    /\ UNCHANGED histVars
    /\ UNCHANGED lineVars
    /\ UNCHANGED auth

SettingsNext ==
    \/ CartStep(Page)
    \/ SaleStep(Page)
    \/ OpenSell(Page)
    \/ \E name \in BusinessNames : UpdateBusinessName(name)
    \/ \E address \in BusinessAddresses : UpdateBusinessAddress(address)
    \/ \E name \in BusinessNames, address \in BusinessAddresses :
           UpdateBusinessInfo(name, address)

SettingsSpec == Init /\ [][SettingsNext]_vars

(* ------ one page, and items and settings changed from other pages ------ *)

LedgerNext ==
    \/ \E id \in ItemIds, quantity \in 1..MaxReq : AddToCart(Page, id, quantity)
    \/ SaleStep(Page)
    \/ OpenSell(Page)
    \/ \E id \in ItemIds :
           \E unitPrice \in EditPrices \cup {inventory[id].unitPrice} :
               UpdateItem(id, unitPrice, inventory[id].quantity)
    \/ \E id \in ItemIds : DeleteItem(id)
    \/ \E name \in BusinessNames : UpdateBusinessName(name)
    \/ \E address \in BusinessAddresses : UpdateBusinessAddress(address)

LedgerSpec == Init /\ [][LedgerNext]_vars

(* ------------- one page whose pending store calls settle -------------- *)

\* a step of the attempt of device d that is in progress: a store call
\* resolves or rejects and handleSubmit runs on to its next await or its end
FlightStep(d) == isLoading[d] /\ SaleStep(d)

FormLiveSpec == FormSpec /\ WF_vars(FlightStep(Page))

(* ------------------------- login and PIN lockout ----------------------- *)

shopVars == <<inventory, sales, receipts, settings, items, cart, sellerName,
              buyerName, isLoading, pc, idx, item, result, sale, toast,
              attempts, initQty, deducted, preQty, alone, ended, applied,
              made, prior, storeOps, tried, readPrice, stamped>>

Pins == {"good", "bad"}

\* settingsDB.verifyPin: the hash of the input equals the stored hash
verifyPin(pin) == pin = "good"

\* a render of AuthProvider: isLocked = lockoutUntil !== null &&
\* Date.now() < lockoutUntil
Rendered(a) ==
    [a EXCEPT !.isLocked = (a.lockoutUntil # 0 /\ a.now < a.lockoutUntil)]

\* the effect with dependency [lockoutUntil], run after a render in which
\* lockoutUntil has changed
ClearLockoutEffect(a) ==
    IF a.lockoutUntil # 0 /\ a.now >= a.lockoutUntil
    THEN Rendered([a EXCEPT !.lockoutUntil = 0, !.failedAttempts = 0,
                            !.storedLockout = 0, !.storedAttempts = 0])
    ELSE a

login_ignoresLock(a, pin) ==
    IF verifyPin(pin)
    THEN Rendered([a EXCEPT !.isAuthenticated = TRUE, !.failedAttempts = 0,
                            !.storedAttempts = 0, !.result = "true",
                            !.sinceLock = 0])
    ELSE LET newAttempts == a.failedAttempts + 1 IN
         IF newAttempts >= MAX_FAILED_ATTEMPTS
         THEN ClearLockoutEffect(Rendered(
                  [a EXCEPT !.failedAttempts = newAttempts,
                            !.storedAttempts = newAttempts,
                            !.lockoutUntil = a.now + LockoutTicks,
                            !.storedLockout = a.now + LockoutTicks,
                            !.result = "false", !.sinceLock = 0]))
         ELSE Rendered([a EXCEPT !.failedAttempts = newAttempts,
                                 !.storedAttempts = newAttempts,
                                 !.result = "false",
                                 !.sinceLock = a.sinceLock + 1])

\* login(pin), with the render its state updates cause
login(a, pin) ==
    IF a.isLocked
    THEN [a EXCEPT !.result = "false"]
    ELSE IF verifyPin(pin)
    THEN Rendered([a EXCEPT !.isAuthenticated = TRUE, !.failedAttempts = 0,
                            !.storedAttempts = 0, !.result = "true",
                            !.sinceLock = 0])
    ELSE LET newAttempts == a.failedAttempts + 1 IN
         IF newAttempts >= MAX_FAILED_ATTEMPTS
         THEN ClearLockoutEffect(Rendered(
                  [a EXCEPT !.failedAttempts = newAttempts,
                            !.storedAttempts = newAttempts,
                            !.lockoutUntil = a.now + LockoutTicks,
                            !.storedLockout = a.now + LockoutTicks,
                            !.result = "false", !.sinceLock = 0]))
         ELSE Rendered([a EXCEPT !.failedAttempts = newAttempts,
                                 !.storedAttempts = newAttempts,
                                 !.result = "false",
                                 !.sinceLock = a.sinceLock + 1])

\* the user enters a PIN on the login page
Login(pin) ==
    /\ ~auth.isAuthenticated
    /\ auth' = login(auth, pin)
    /\ UNCHANGED shopVars

\* logout()
Logout ==
    /\ auth.isAuthenticated
    /\ auth' = Rendered([auth EXCEPT !.isAuthenticated = FALSE,
                                     !.result = "none"])
    /\ UNCHANGED shopVars

\* the page is loaded again: the init effect of AuthProvider reads
\* keke-lockout and keke-failed-attempts from localStorage
Reload ==
    /\ auth' = LET a == auth
                   live == a.storedLockout # 0 /\ a.now < a.storedLockout
               IN ClearLockoutEffect(Rendered(
                      [a EXCEPT !.lockoutUntil =
                                    IF live THEN a.storedLockout ELSE 0,
                                !.storedLockout =
                                    IF live THEN a.storedLockout ELSE 0,
                                !.failedAttempts = a.storedAttempts,
                                !.result = "none"]))
    /\ auth' # auth
    /\ UNCHANGED shopVars

\* refreshSettings: setSettings makes AuthProvider render again
RefreshSettings ==
    /\ auth' = Rendered(auth)
    /\ auth' # auth
    /\ UNCHANGED shopVars

\* time passes
Tick ==
    /\ auth.now < MaxNow
    /\ auth' = [auth EXCEPT !.now = @ + 1]
    /\ UNCHANGED shopVars

AuthNext ==
    \/ \E pin \in Pins : Login(pin)
    \/ Logout
    \/ Reload
    \/ RefreshSettings
    \/ Tick

AuthSpec == Init /\ [][AuthNext]_vars

(* ------------------------------ properties ----------------------------- *)

\* units of item i recorded by the persisted Sale records
SoldUnits(i) == SumSeq([k \in 1..Len(sales) |-> CartQty(sales[k].items, i)])

\* the sum of quantity x unitPrice over the lines of cart c
LineSum(c) == SumSeq([k \in 1..Len(c) |-> c[k].quantity * c[k].unitPrice])

\* every line of the cart of device d was covered by the stock its attempt met
Covered(d) ==
    \A k \in 1..Len(cart[d]) :
        cart[d][k].quantity <= preQty[d][cart[d][k].itemId]

\* the receipts that reference sale id
ReceiptsOf(id) == {k \in 1..Len(receipts) : receipts[k].saleId = id}

\* C1: no decrement is lost: for every item, the initial quantity minus the
\* current quantity equals the sum of the quantities of all decrements that
\* reported success, whatever the interleaving of the sale attempts.
C1_NoLostDecrement ==
    \A i \in ItemIds : initQty[i] - inventory[i].quantity = deducted[i]

\* C2: one item with quantity 5, two concurrent attempts of 3 units each:
\* once both attempts have ended as a success or a refusal, exactly one has
\* succeeded, the other was refused, and the quantity is 2.
C2_ExactlyOneSucceeds ==
    (attempts = 2 /\ \A d \in Devices : ended[d] \in {"complete", "refused"})
    => /\ Cardinality({d \in Devices : ended[d] = "complete"}) = 1
       /\ Cardinality({d \in Devices : ended[d] = "refused"}) = 1
       /\ inventory["i1"].quantity = 2

\* C3: in every reachable state every inventory item's quantity is >= 0.
C3_QuantityNonNegative ==
    \A i \in ItemIds : inventory[i].quantity >= 0

\* two attempts have both been granted stock that covered only one of them,
\* and the item is sold out
C3_Witness ==
    \E i \in ItemIds : inventory[i].quantity = 0 /\ deducted[i] > initQty[i]

\* C4: when an attempt that ran alone has deducted one or more lines and a
\* later line is refused, then at its end every item's quantity equals its
\* quantity before the attempt and no Sale and no Receipt was created.
C4_RefusedLineRollsBack ==
    \A d \in Devices :
        (ended[d] = "refused" /\ alone[d] /\ applied[d] # NoQty)
        => (Quantities = preQty[d] /\ made[d] = NoneMade)

\* C5: when persisting the Sale fails after all lines were deducted, in an
\* attempt that ran alone, every item's quantity equals its quantity before
\* the attempt and no Sale and no Receipt exists for the attempt.
C5_SaleFaultCompensated ==
    \A d \in Devices :
        (ended[d] = "saleFault" /\ alone[d])
        => (Quantities = preQty[d] /\ made[d] = NoneMade)

\* C6: whenever no sale attempt is in flight, for every item the units
\* removed from the inventory equal the units of that item recorded by the
\* persisted Sale records.
C6_DeductedHasSale ==
    (\A d \in Devices : Idle(d))
    => \A i \in ItemIds : initQty[i] - inventory[i].quantity = SoldUnits(i)

\* C7: when receipt persistence fails after the Sale was persisted, the Sale
\* record is still in the Sales Store as it was written, and (the attempt
\* having run alone) every line's deduction is still applied.
C7_ReceiptFaultKeepsSale ==
    \A d \in Devices :
        ended[d] = "receiptFault"
        => /\ sale[d] \in 1..Len(sales)
           /\ sales[sale[d]] =
                  NewSale(sale[d], [items |-> saleItems(cart[d]),
                                    totalAmount |-> totalAmount(cart[d]),
                                    sellerName |-> Trim(sellerName[d]),
                                    buyerName |-> Trim(buyerName[d])])
           /\ ReceiptsOf(sale[d]) = {}
           /\ alone[d] =>
                \A i \in ItemIds :
                    inventory[i].quantity = preQty[d][i] - CartQty(cart[d], i)

\* an attempt that ran alone has ended in a receipt failure
C7_Witness ==
    \E d \in Devices :
        ended[d] = "receiptFault" /\ alone[d] /\ applied[d] # NoQty

\* C8: when an attempt whose receipt persistence failed is retried with the
\* same cart and the retry succeeds, the attempts together created exactly
\* one Sale and one Receipt and deducted every cart line exactly once.
C8_RetryExactlyOnce ==
    \A d \in Devices :
        (ended[d] = "complete" /\ prior[d].sales > 0)
        => /\ prior[d].sales + made[d].sales = 1
           /\ prior[d].receipts + made[d].receipts = 1
           /\ \A i \in ItemIds :
                 prior[d].applied[i] + applied[d][i] = CartQty(cart[d], i)

\* C9: receipt creation is idempotent per saleId: the Receipt Store never
\* holds two receipts with the same saleId, however often receipt creation
\* is called for a sale.
C9_OneReceiptPerSale ==
    \A j, k \in 1..Len(receipts) :
        receipts[j].saleId = receipts[k].saleId => j = k

\* C10: an attempt run alone on a cart whose every line is covered by the
\* stock is not refused, and when it completes each sold item's quantity
\* has decreased by exactly its line quantity, exactly one Sale and one
\* Receipt were created, and both carry the sum of quantity x unitPrice.
C10_SaleAloneEffect ==
    \A d \in Devices :
        (alone[d] /\ ended[d] \notin {"none", "validation"} /\ Covered(d))
        => /\ ended[d] # "refused"
           /\ ended[d] = "complete" =>
                /\ \A i \in ItemIds :
                      inventory[i].quantity = preQty[d][i] - CartQty(cart[d], i)
                /\ made[d] = [sales |-> 1, receipts |-> 1]
                /\ sale[d] \in 1..Len(sales)
                /\ sales[sale[d]].totalAmount = LineSum(cart[d])
                /\ Cardinality(ReceiptsOf(sale[d])) = 1
                /\ \A k \in ReceiptsOf(sale[d]) :
                      receipts[k].totalAmount = LineSum(cart[d])

\* an attempt with two lines, one of them of 2 units, has completed alone
C10_Witness ==
    \E d \in Devices :
        /\ alone[d] /\ ended[d] = "complete" /\ Covered(d)
        /\ Len(cart[d]) = 2
        /\ \E k \in 1..2 : cart[d][k].quantity = 2

\* C11: a one-line attempt that ran alone and requested more units than the
\* item held is refused with the insufficient-stock failure for that line
\* (unless the store call itself faulted), leaves every quantity unchanged
\* and creates no Sale and no Receipt.
C11_OverRequestRefused ==
    \A d \in Devices :
        ( /\ alone[d]
          /\ Len(cart[d]) = 1
          /\ ended[d] \notin {"none", "validation"}
          /\ cart[d][1].quantity > preQty[d][cart[d][1].itemId] )
        => /\ ended[d] \in {"refused", "deductFault"}
           /\ ended[d] = "refused" => toast[d] = DeductToast(cart[d][1].itemId)
           /\ Quantities = preQty[d]
           /\ made[d] = NoneMade

\* a one-line attempt asking for more than the item held has been refused
C11_Witness ==
    \E d \in Devices :
        /\ alone[d]
        /\ Len(cart[d]) = 1
        /\ cart[d][1].quantity > preQty[d][cart[d][1].itemId]
        /\ ended[d] = "refused"
        /\ Quantities = preQty[d]

\* C12: an attempt that ran alone performs exactly one decrement per cart
\* line when it succeeds, and when it fails (a refused line, a faulted
\* deduction, a faulted sale insert) the decrements it had applied are
\* reversed, so every quantity is back at its value before the attempt.
C12_ExactDecrements ==
    \A d \in Devices :
        alone[d] =>
            /\ ended[d] = "complete" =>
                   /\ tried[d] = Len(cart[d])
                   /\ \A i \in ItemIds : applied[d][i] = CartQty(cart[d], i)
            /\ ended[d] \in {"refused", "deductFault", "saleFault"} =>
                   Quantities = preQty[d]

\* C13: a submit with an empty cart, or with a seller or buyer name that is
\* empty after trimming, is rejected before any mutation: the step changes
\* no inventory quantity, creates no Sale and no Receipt, and starts no
\* processing (the page stays idle and not loading).
C13_InvalidRejected ==
    [][\A d \in Devices :
          ( /\ HandleSubmit(d)
            /\ \/ cart[d] = <<>>
               \/ Trim(sellerName[d]) = ""
               \/ Trim(buyerName[d]) = "" )
          => /\ inventory' = inventory
             /\ sales' = sales
             /\ receipts' = receipts
             /\ pc'[d] = "idle"
             /\ ~isLoading'[d]
             /\ ended'[d] = "validation"]_vars

\* a submit with a filled cart and a blank (whitespace-only) seller name has
\* been rejected, nothing having been written
C13_Witness ==
    \E d \in Devices :
        /\ ended[d] = "validation"
        /\ cart[d] # <<>>
        /\ sellerName[d] = " "
        /\ toast[d] = "Seller name is required"
        /\ Quantities = initQty
        /\ sales = <<>>
        /\ receipts = <<>>

C15_ReceiptMirrorsSale ==
    \A k \in 1..Len(receipts) :
        /\ receipts[k].saleId \in 1..Len(sales)
        /\ LET s == sales[receipts[k].saleId] IN
               /\ receipts[k].items = s.items
               /\ receipts[k].totalAmount = s.totalAmount
               /\ receipts[k].sellerName = s.sellerName
               /\ receipts[k].buyerName = s.buyerName

\* a Receipt exists for a Sale whose seller name was typed with surrounding
\* blanks and stored trimmed
C15_Witness ==
    \E k \in 1..Len(receipts) :
        /\ receipts[k].saleId \in 1..Len(sales)
        /\ sales[receipts[k].saleId].sellerName = "Ada"
        /\ receipts[k].sellerName = "Ada"
        /\ sellerName[Page] = " Ada "
        /\ pc[Page] \in {"finalRefresh", "receipt"}

\* C16: every persisted Receipt's saleId is the id of a Sale that exists in
\* the Sales Store, whatever fails and however the attempts interleave.
C16_ReceiptHasSale ==
    \A k \in 1..Len(receipts) :
        /\ receipts[k].saleId \in 1..Len(sales)
        /\ sales[receipts[k].saleId].id = receipts[k].saleId

\* a Receipt is persisted while another attempt ended in a failed Sale insert
C16_Witness ==
    /\ Len(receipts) >= 1
    /\ \E d \in Devices : ended[d] = "saleFault"
    /\ \A k \in 1..Len(receipts) : receipts[k].saleId \in 1..Len(sales)

\* C17: the outcome reported for a receipt-persistence failure after a
\* persisted Sale differs from the outcome reported for a sale-persistence
\* failure.
C17_OutcomesDistinguished ==
    \A d, e \in Devices :
        (ended[d] = "receiptFault" /\ ended[e] = "saleFault")
        => toast[d] # toast[e]

\* the index of the line a refused attempt of device d stopped at: the line
\* its toast names, which is also the last line it tried
RefusedAt(d) ==
    {k \in 1..Len(cart[d]) :
        tried[d] = k /\ toast[d] = DeductToast(cart[d][k].itemId)}

\* C18: lines are deducted in cart order (the line being processed is always
\* the one after those already tried) and a refused attempt stopped at the
\* line it names: the lines before it were deducted, no line from it on was,
\* and in an attempt that ran alone it is the first line in cart order that
\* the stock did not cover.
C18_HaltsAtFirstRefused ==
    \A d \in Devices :
        /\ pc[d] = "getById" => idx[d] = tried[d] + 1
        /\ pc[d] \in {"update", "refresh"} => idx[d] = tried[d]
        /\ ended[d] = "refused" =>
             \E k \in RefusedAt(d) :
                /\ \A j \in 1..(k - 1) :
                       applied[d][cart[d][j].itemId] = cart[d][j].quantity
                /\ \A j \in k..Len(cart[d]) :
                       applied[d][cart[d][j].itemId] = 0
                /\ alone[d] =>
                     /\ cart[d][k].quantity > preQty[d][cart[d][k].itemId]
                     /\ \A j \in 1..(k - 1) :
                            cart[d][j].quantity <= preQty[d][cart[d][j].itemId]

\* an attempt with two lines, neither covered by the stock, was refused at
\* its first line and never tried the second
C18_Witness ==
    \E d \in Devices :
        /\ ended[d] = "refused"
        /\ alone[d]
        /\ Len(cart[d]) = 2
        /\ \A j \in 1..2 : cart[d][j].quantity > preQty[d][cart[d][j].itemId]
        /\ tried[d] = 1
        /\ toast[d] = DeductToast(cart[d][1].itemId)

\* C19: each line of the Sale an attempt persisted carries the unit price of
\* the inventory row that deductStock read for that line, even when the
\* price was edited after the line was put in the cart.
C19_PriceAtDeduction ==
    \A d \in Devices :
        (pc[d] \in {"receiptsAdd", "finalRefresh", "receipt"}
            /\ sale[d] \in 1..Len(sales))
        => \A j \in 1..Len(sales[sale[d]].items) :
               sales[sale[d]].items[j].unitPrice =
                   readPrice[d][sales[sale[d]].items[j].itemId]

\* C20: every persisted Receipt's businessName and businessAddress equal the
\* business name and address the settings held when the Receipt was made,
\* whatever the settings are changed to afterwards.
C20_ReceiptStampsSettings ==
    /\ Len(stamped) = Len(receipts)
    /\ \A k \in 1..Len(receipts) :
           /\ receipts[k].businessName = stamped[k].businessName
           /\ receipts[k].businessAddress = stamped[k].businessAddress

\* the item ids of the lines of cart c
CartItems(c) == {c[k].itemId : k \in 1..Len(c)}

\* C21: two attempts, one per device, whose carts share no item and whose
\* lines the initial stock covers, do not affect each other: whatever the
\* interleaving, when both have ended without a store fault both have
\* succeeded, and every item's quantity is what running them one after the
\* other (in either order) leaves: the initial quantity minus the units of
\* the one cart that holds the item.
C21_DisjointIndependent ==
    \A d, e \in Devices :
        ( /\ d # e
          /\ attempts = 2
          /\ ended[d] \in {"complete", "refused"}
          /\ ended[e] \in {"complete", "refused"}
          /\ CartItems(cart[d]) \cap CartItems(cart[e]) = {}
          /\ \A k \in 1..Len(cart[d]) :
                 cart[d][k].quantity <= initQty[cart[d][k].itemId]
          /\ \A k \in 1..Len(cart[e]) :
                 cart[e][k].quantity <= initQty[cart[e][k].itemId] )
        => /\ ended[d] = "complete"
           /\ ended[e] = "complete"
           /\ Len(sales) = 2
           /\ \A i \in ItemIds :
                  inventory[i].quantity =
                      initQty[i] - CartQty(cart[d], i) - CartQty(cart[e], i)

\* two attempts on disjoint carts ran overlapped and both completed
C21_Witness ==
    \E d, e \in Devices :
        /\ d # e
        /\ attempts = 2
        /\ ended[d] = "complete"
        /\ ended[e] = "complete"
        /\ ~alone[d]
        /\ ~alone[e]
        /\ cart[d] # <<>>
        /\ cart[e] # <<>>
        /\ CartItems(cart[d]) \cap CartItems(cart[e]) = {}

\* C22: persisted Sales and Receipts are immutable: no step (a further sale,
\* an item's price edit, an item's deletion, a settings edit) changes or
\* removes a Sale or a Receipt that exists; both tables only grow at the end.
C22_LedgerAppendOnly ==
    [][ /\ Len(sales') >= Len(sales)
        /\ \A k \in 1..Len(sales) : sales'[k] = sales[k]
        /\ Len(receipts') >= Len(receipts)
        /\ \A k \in 1..Len(receipts) : receipts'[k] = receipts[k] ]_vars

\* a Sale and its Receipt are persisted, and afterwards the price of the item
\* sold was edited or the item deleted, and the business name was changed
C22_Witness ==
    \E k \in 1..Len(receipts) :
        /\ receipts[k].saleId \in 1..Len(sales)
        /\ receipts[k].businessName # settings.businessName
        /\ LET line == sales[receipts[k].saleId].items[1] IN
               /\ line.unitPrice = SeedPrice(line.itemId)
               /\ \/ inventory[line.itemId].unitPrice # line.unitPrice
                  \/ ~inventory[line.itemId].present

\* C23: a conditional decrement writes only when the item exists and its
\* current quantity is at least the requested amount, and then writes exactly
\* current - requested; a refused decrement leaves the whole inventory
\* unchanged; in both cases no other item's row is modified.
C23_ConditionalDecrement ==
    [][\A d \in Devices :
          /\ Update(d) =>
                LET id == cart[d][idx[d]].itemId
                    requested == cart[d][idx[d]].quantity
                IN /\ inventory[id].present
                   /\ inventory[id].quantity >= requested
                   /\ inventory'[id].quantity =
                          inventory[id].quantity - requested
                   /\ \A i \in ItemIds \ {id} : inventory'[i] = inventory[i]
          /\ (GetById(d) /\ pc'[d] = "refresh") =>
                /\ inventory' = inventory
                /\ ~result'[d] ]_vars

\* C24: after every cart operation each line's quantity is at least 1 and at
\* most the available quantity known for its item, and an add is accepted
\* only when the line's total requested quantity does not exceed the quantity
\* currently known for the item (the cached inventory item); a refused add
\* leaves the cart as it is.
C24_CartWithinKnownStock ==
    [][\A d \in Devices :
          /\ \A k \in 1..Len(cart'[d]) :
                 /\ cart'[d][k].quantity >= 1
                 /\ cart'[d][k].quantity <= cart'[d][k].availableQty
          /\ \A id \in ItemIds, quantity \in 1..MaxReq :
                 AddToCart(d, id, quantity) =>
                     CartQty(cart'[d], id) <= items[d][id].quantity ]_vars

\* what adjusting line index of cart c by delta must leave, r being the cart
\* after: the line removed and the others in their order, or the cart as it
\* was, or only that line changed to the new quantity and its exact total
Adjusted(c, index, delta, r) ==
    LET newQty == c[index].quantity + delta IN
    IF newQty <= 0
    THEN /\ Len(r) = Len(c) - 1
         /\ \A k \in 1..Len(r) : r[k] = IF k < index THEN c[k] ELSE c[k + 1]
    ELSE IF newQty > c[index].availableQty
    THEN r = c
    ELSE /\ Len(r) = Len(c)
         /\ \A k \in 1..Len(c) : k # index => r[k] = c[k]
         /\ r[index].quantity = newQty
         /\ r[index].total = newQty * c[index].unitPrice
         /\ r[index].itemId = c[index].itemId
         /\ r[index].unitPrice = c[index].unitPrice
         /\ r[index].availableQty = c[index].availableQty

\* C25: adjusting an existing line by delta removes the line when quantity +
\* delta <= 0 (the other lines keep their relative order), leaves the cart
\* exactly unchanged when quantity + delta exceeds the line's known
\* availability, and otherwise changes only that line, to quantity + delta
\* with total (quantity + delta) x unitPrice; both for what the minus / plus
\* buttons would do to the current cart and for every press made.
C25_AdjustLine ==
    [][\A d \in Devices :
          \A index \in 1..Len(cart[d]), delta \in {-1, 1} :
              /\ Adjusted(cart[d], index, delta,
                          updateCartQuantity(cart[d], index, delta))
              /\ UpdateCartQuantity(d, index, delta) =>
                     Adjusted(cart[d], index, delta, cart'[d]) ]_vars

\* a cart of two lines whose first line stands at its known availability of
\* more than one unit (plus is refused, minus lowers it) and whose second
\* line holds one unit (minus removes it)
C25_Witness ==
    /\ Len(cart[Page]) = 2
    /\ cart[Page][1].quantity = cart[Page][1].availableQty
    /\ cart[Page][1].quantity > 1
    /\ cart[Page][2].quantity = 1
    /\ pc[Page] = "idle"

\* C26: the steps of an attempt happen only in the order validate, deduct
\* every line, persist the Sale, persist the Receipt: processing is past
\* validation only with a valid form, the Sale is inserted only when every
\* cart line has been tried and decremented, and the Receipt is inserted only
\* for the Sale the attempt has already persisted.
C26_StepOrder ==
    [][\A d \in Devices :
          /\ pc'[d] \notin {"idle", "receipt"} =>
                 ~Invalid(cart'[d], sellerName'[d], buyerName'[d])
          /\ SalesAdd(d) =>
                 /\ tried[d] = Len(cart[d])
                 /\ \A i \in ItemIds : applied[d][i] = CartQty(cart[d], i)
                 /\ made[d] = NoneMade
          /\ ReceiptsAdd(d) =>
                 /\ made[d] = [sales |-> 1, receipts |-> 0]
                 /\ sale[d] \in 1..Len(sales)
                 /\ receipts'[Len(receipts')].saleId = sale[d]
                 /\ \A i \in ItemIds : applied[d][i] = CartQty(cart[d], i) ]_vars

\* an attempt with two lines went through every step and shows its receipt
C26_Witness ==
    \E d \in Devices :
        /\ pc[d] = "receipt"
        /\ Len(cart[d]) = 2
        /\ tried[d] = 2
        /\ made[d] = [sales |-> 1, receipts |-> 1]

\* C28: within one checkout session two attempts never overlap: a
\* handleSubmit starts only when no attempt of the page is between its steps,
\* isLoading is true exactly while an attempt is in progress, and every
\* attempt, completed, refused or failed, eventually ends with isLoading
\* false.
C28_OneAttemptAtATime ==
    /\ [][\A d \in Devices : HandleSubmit(d) => pc[d] = "idle"]_vars
    /\ [](\A d \in Devices : isLoading[d] <=> pc[d] \notin {"idle", "receipt"})
    /\ \A d \in Devices : isLoading[d] ~> ~isLoading[d]

\* an attempt of the page ended in a failure and a second one is in progress
C28_Witness ==
    /\ attempts = 2
    /\ isLoading[Page]
    /\ pc[Page] = "salesAdd"
    /\ Len(sales) = 0

\* C27: after every cart operation the cart holds at most one line per
\* item, lines that stay in the cart keep their relative order, and a line
\* for an item that was not in the cart is put at the end.
C27_OneLinePerItem ==
    [][\A d \in Devices :
          /\ \A j, k \in 1..Len(cart'[d]) :
                 j # k => cart'[d][j].itemId # cart'[d][k].itemId
          /\ \A a, b \in CartItems(cart[d]) \cap CartItems(cart'[d]) :
                 FindIndex(cart[d], a) < FindIndex(cart[d], b)
                     => FindIndex(cart'[d], a) < FindIndex(cart'[d], b)
          /\ \A a \in CartItems(cart'[d]) \ CartItems(cart[d]) :
                 cart'[d][Len(cart'[d])].itemId = a ]_vars

\* i1 was added, then i2, then i1 again: the second add of i1 went into the
\* first line
C27_Witness ==
    /\ pc[Page] = "idle"
    /\ Len(cart[Page]) = 2
    /\ cart[Page][1].itemId = "i1"
    /\ cart[Page][1].quantity = 2
    /\ cart[Page][2].itemId = "i2"
    /\ attempts = 0

\* isLocked as the code defines it, on the clock: a lockout is set and its
\* end has not been reached
TimeLocked(a) == a.lockoutUntil # 0 /\ a.now < a.lockoutUntil

C30_ExpiryResets ==
    [][\A pin \in Pins :
          ( /\ Login(pin)
            /\ auth'.lockoutUntil # auth.lockoutUntil
            /\ auth'.lockoutUntil # 0 )
          => auth.sinceLock + 1 >= MAX_FAILED_ATTEMPTS ]_vars

====
